---- MODULE Spec2Model ----
(***************************************************************************)
(* Model of src/main.py: one POST /human_query request handled by          *)
(* human_query_endpoint, which calls human_query_to_sql (get_schema, then  *)
(* the translation LLM), query, and build_answer (the summarising LLM).    *)
(* The database and the LLM are the environment: every call into them may  *)
(* raise or reply, and what they reply is drawn from small sets.           *)
(* Strings are sequences: SQL and schema text are sequences of characters, *)
(* the LLM's reply is a sequence of lexical tokens, messages shown to the  *)
(* user are sequences of pieces (the literal prefix, then the embedded     *)
(* text).                                                                  *)
(***************************************************************************)
EXTENDS Integers, Sequences, FiniteSets, TLC

VARIABLES
    pc,               \* position of the request in the code
    tables,           \* get_schema: rows of SHOW TABLES still to describe
    schema_info,      \* get_schema: the dict being built
    database_schema,  \* human_query_to_sql: what get_schema returned
    schema_conn,      \* connection opened by get_schema
    llm_text,         \* response.text of the translation call
    sql_response,     \* human_query_endpoint: what human_query_to_sql returned
    sql_query,        \* human_query_endpoint / query: the SQL to run
    original_query,   \* human_query_endpoint: original_query_from_llm
    query_conn,       \* connection opened by query
    q_path,           \* query: branch taken at the SELECT test
    committed,        \* query: conn.commit() has completed
    results,          \* query: local results
    result,           \* human_query_endpoint: what query returned
    answer,           \* the answer string (build_answer's value, then the response's)
    escaped,          \* exception that left the function that raised it uncaught
    trace             \* calls made so far, in order

vars == <<pc, tables, schema_info, database_schema, schema_conn,
          llm_text, sql_response, sql_query, original_query, query_conn, q_path,
          committed, results, result, answer, escaped, trace>>

\* ---------------------------------------------------------------- bounds
MaxTables == 2
MaxCols == 1
MaxTextLen == 3
MaxLead == 1
MaxRows == 2

\* ------------------------------------------------------- string helpers
Range(s) == {s[i] : i \in 1..Len(s)}

SeqsUpTo(S, n) == UNION {[1..k -> S] : k \in 0..n}

\* characters str.strip() removes
Whitespace == {" ", "\n"}

RECURSIVE lstrip(_)
lstrip(s) == IF s = <<>> THEN s
             ELSE IF Head(s) \in Whitespace THEN lstrip(Tail(s)) ELSE s

RECURSIVE rstrip(_)
rstrip(s) == IF s = <<>> THEN s
             ELSE IF s[Len(s)] \in Whitespace THEN rstrip(SubSeq(s, 1, Len(s) - 1)) ELSE s

strip(s) == rstrip(lstrip(s))

LowerLetters == <<"a", "c", "d", "e", "l", "p", "s", "t", "u", "x">>
UpperLetters == <<"A", "C", "D", "E", "L", "P", "S", "T", "U", "X">>

upper_char(c) == IF \E i \in 1..Len(LowerLetters) : LowerLetters[i] = c
                 THEN UpperLetters[CHOOSE i \in 1..Len(LowerLetters) : LowerLetters[i] = c]
                 ELSE c

upper(s) == [i \in 1..Len(s) |-> upper_char(s[i])]

startswith(s, p) == Len(s) >= Len(p) /\ SubSeq(s, 1, Len(p)) = p

endswith(s, p) == Len(s) >= Len(p) /\ SubSeq(s, Len(s) - Len(p) + 1, Len(s)) = p

\* Python's  p in s  on two strings
contains(s, p) == \E i \in 1..(Len(s) - Len(p) + 1) : SubSeq(s, i, i + Len(p) - 1) = p

RECURSIVE join(_)
join(ss) == IF ss = <<>> THEN <<>> ELSE Head(ss) \o join(Tail(ss))

\* ------------------------------------------------------ database content
TableNames == { <<"f", "i", "l", "m">>, <<"e", "r", "r", "o", "r", "s">> }

\* rows of DESCRIBE <table>
DescribeRows == [Field : { <<"i", "d">>, <<"e", "r", "r", "o", "r">> },
                 Type  : { <<"i", "n", "t">> },
                 Null  : {"YES", "NO"}]

\* rows of a SELECT: a row is json-serializable or holds a datetime/Decimal value
RowKinds == {"plain", "datetime"}

\* str(err) of what the database raises
ConnectError == "connect failed"
ShowTablesError == "show tables failed"
DescribeError == "describe failed"
CloseError == "close failed"
ExecuteError == "execute failed"
FetchError == "fetch failed"
CommitError == "commit failed"

\* ------------------------------------------------------------ get_schema
NoSchema == [kind |-> "none", error |-> "", text |-> <<>>]

schema_error_record(msg) == [kind |-> "dict", error |-> msg, text |-> <<>>]

column_entry(col) == [column_name |-> col.Field, data_type |-> col.Type,
                      nullable |-> (col.Null = "YES")]

quoted(s) == <<"\"">> \o s \o <<"\"">>

dumps_column(c) ==
    <<"{">> \o quoted(<<"c", "o", "l", "u", "m", "n", "_", "n", "a", "m", "e">>) \o <<":">>
            \o quoted(c.column_name) \o <<",">>
            \o quoted(<<"d", "a", "t", "a", "_", "t", "y", "p", "e">>) \o <<":">>
            \o quoted(c.data_type) \o <<",">>
            \o quoted(<<"n", "u", "l", "l", "a", "b", "l", "e">>) \o <<":">>
            \o (IF c.nullable THEN <<"t", "r", "u", "e">> ELSE <<"f", "a", "l", "s", "e">>)
            \o <<"}">>

dumps_table(t) ==
    quoted(t.table_name) \o <<":">> \o <<"[">>
        \o join([i \in 1..Len(t.columns) |-> dumps_column(t.columns[i])]) \o <<"]">>

\* json.dumps(schema_info): the text of the schema, without the layout whitespace
dumps_schema(info) == <<"{">> \o join([i \in 1..Len(info) |-> dumps_table(info[i])]) \o <<"}">>

get_schema_connect ==
    /\ pc = "gs_connect"
    /\ \E ok \in BOOLEAN :
        IF ok
        THEN /\ schema_conn' = "open"
             /\ pc' = "gs_show_tables"
             /\ UNCHANGED database_schema
        ELSE /\ database_schema' = schema_error_record(ConnectError)
             /\ pc' = "hq_check"
             /\ UNCHANGED schema_conn
    /\ UNCHANGED <<tables, schema_info, llm_text, sql_response, sql_query, original_query,
                   query_conn, q_path, committed, results, result, answer, escaped, trace>>

get_schema_show_tables ==
    /\ pc = "gs_show_tables"
    /\ \/ \E ts \in SeqsUpTo(TableNames, MaxTables) :
            /\ tables' = ts
            /\ pc' = IF ts = <<>> THEN "gs_close" ELSE "gs_describe"
            /\ UNCHANGED database_schema
       \/ /\ database_schema' = schema_error_record(ShowTablesError)
          /\ pc' = "hq_check"
          /\ UNCHANGED tables
    /\ UNCHANGED <<schema_info, schema_conn, llm_text, sql_response, sql_query,
                   original_query, query_conn, q_path, committed, results, result,
                   answer, escaped, trace>>

get_schema_describe ==
    /\ pc = "gs_describe"
    /\ \/ \E cols \in SeqsUpTo(DescribeRows, MaxCols) :
            /\ schema_info' = Append(schema_info,
                    [table_name |-> Head(tables),
                     columns |-> [i \in 1..Len(cols) |-> column_entry(cols[i])]])
            /\ tables' = Tail(tables)
            /\ pc' = IF Tail(tables) = <<>> THEN "gs_close" ELSE "gs_describe"
            /\ UNCHANGED database_schema
       \/ /\ database_schema' = schema_error_record(DescribeError)
          /\ tables' = <<>>
          /\ schema_info' = <<>>
          /\ pc' = "hq_check"
    /\ UNCHANGED <<schema_conn, llm_text, sql_response, sql_query, original_query,
                   query_conn, q_path, committed, results, result, answer, escaped, trace>>

get_schema_close ==
    /\ pc = "gs_close"
    /\ \/ /\ schema_conn' = "closed"
          /\ database_schema' = [kind |-> "str", error |-> "", text |-> dumps_schema(schema_info)]
       \/ /\ database_schema' = schema_error_record(CloseError)
          /\ UNCHANGED schema_conn
    /\ schema_info' = <<>>
    /\ pc' = "hq_check"
    /\ UNCHANGED <<tables, llm_text, sql_response, sql_query, original_query,
                   query_conn, q_path, committed, results, result, answer, escaped, trace>>

\* ---------------------------------------------------- human_query_to_sql
ErrorWord == <<"e", "r", "r", "o", "r">>

\* mutant of error_in_schema: the test only looks for the word in schema text
error_in_schema_text_only(s) == s.kind = "str" /\ contains(s.text, <<"e", "r", "r", "o", "r">>)

\* "error" in database_schema : key test on the error dict, substring test on the text
error_in_schema(s) == IF s.kind = "dict" THEN TRUE ELSE contains(s.text, ErrorWord)

NoneValue == [kind |-> "None", s |-> <<>>]

NoResponse == [kind |-> "none", has_sql |-> FALSE, sql |-> NoneValue,
               has_error |-> FALSE, error |-> "", has_orig |-> FALSE]

\* mutant of translation_error: the failure record is {"error": msg}, as get_schema's
translation_error_without_key(msg) ==
    [kind |-> "dict", has_sql |-> FALSE, sql |-> [kind |-> "None", s |-> <<>>],
     has_error |-> TRUE, error |-> msg, has_orig |-> FALSE]

\* {"sql_query": None, "error": msg}
translation_error(msg) == [kind |-> "dict", has_sql |-> TRUE, sql |-> NoneValue,
                           has_error |-> TRUE, error |-> msg, has_orig |-> FALSE]

human_query_to_sql_check ==
    /\ pc = "hq_check"
    /\ IF error_in_schema(database_schema)
       THEN IF database_schema.kind = "dict"
            THEN /\ sql_response' = translation_error(database_schema.error)
                 /\ pc' = "ep_check"
                 /\ UNCHANGED escaped
            ELSE \* database_schema["error"] on a str
                 /\ escaped' = [type |-> "TypeError", where |-> "human_query_to_sql"]
                 /\ pc' = "done"
                 /\ UNCHANGED sql_response
       ELSE /\ pc' = "hq_llm"
            /\ UNCHANGED <<sql_response, escaped>>
    /\ database_schema' = [database_schema EXCEPT !.text = <<>>]
    /\ UNCHANGED <<tables, schema_info, schema_conn, llm_text, sql_query, original_query,
                   query_conn, q_path, committed, results, result, answer, trace>>

\* lexical tokens of the translation reply: the opening fence (three backquotes
\* followed by json) and the closing fence (three backquotes)
FenceJson == "[fence]json"
Fence == "[fence]"

\* complete JSON texts the model can emit, and a text that is no JSON
JsonAtoms == {"obj_sql", "obj_sql_only", "obj_sql_num", "obj_null", "obj_nokey",
              "list", "string", "number"}
Garbage == "SELECT 1"

TextTokens == {FenceJson, Fence, " "} \cup JsonAtoms \cup {Garbage}

\* what the SQL text inside the reply starts with, after its leading whitespace
SqlWords == { <<"S", "E", "L", "E", "C", "T", " ", "x">>,
              <<"s", "e", "l", "e", "c", "t", " ", "x">>,
              <<"S", "e", "l", "e", "c", "t", "e", "d">>,
              <<"S", "E", "L", "E", "C">>,
              <<"U", "P", "D", "A", "T", "E", " ", "x">>,
              <<"x", "S", "E", "L", "E", "C", "T">>,
              <<>> }

SqlInputs == {lead \o w : lead \in SeqsUpTo(Whitespace, MaxLead), w \in SqlWords}

LlmError == "llm call failed"
JsonError == "json decode failed"

strip_fences(text) ==
    LET a == IF startswith(text, <<FenceJson>>)
             THEN strip(SubSeq(text, 2, Len(text))) ELSE text
    IN  IF endswith(a, <<Fence>>) THEN strip(SubSeq(a, 1, Len(a) - 1)) ELSE a

\* json.loads accepts one JSON text with whitespace around it
json_valid(text) == LET u == strip(text) IN Len(u) = 1 /\ u[1] \in JsonAtoms

json_loads(text, sql) ==
    LET atom == strip(text)[1]
        dict(has, v, orig) == [kind |-> "dict", has_sql |-> has, sql |-> v,
                               has_error |-> FALSE, error |-> "", has_orig |-> orig]
    IN  CASE atom = "obj_sql"      -> dict(TRUE, [kind |-> "str", s |-> sql], TRUE)
          [] atom = "obj_sql_only" -> dict(TRUE, [kind |-> "str", s |-> sql], FALSE)
          [] atom = "obj_sql_num"  -> dict(TRUE, [kind |-> "num", s |-> <<>>], TRUE)
          [] atom = "obj_null"     -> dict(TRUE, NoneValue, TRUE)
          [] atom = "obj_nokey"    -> dict(FALSE, NoneValue, TRUE)
          [] OTHER                 -> [NoResponse EXCEPT !.kind = atom]

human_query_to_sql_llm ==
    /\ pc = "hq_llm"
    /\ trace' = Append(trace, "translate_llm")
    /\ \/ /\ sql_response' = translation_error(LlmError)
          /\ UNCHANGED llm_text
       \/ \E text \in SeqsUpTo(TextTokens, MaxTextLen) :
          \E sql \in (IF {"obj_sql", "obj_sql_only"} \cap Range(text) # {}
                      THEN SqlInputs ELSE {<<>>}) :
            /\ llm_text' = text
            /\ sql_response' = IF json_valid(strip_fences(text))
                               THEN json_loads(strip_fences(text), sql)
                               ELSE translation_error(JsonError)
    /\ pc' = "ep_check"
    /\ UNCHANGED <<tables, schema_info, database_schema, schema_conn, sql_query,
                   original_query, query_conn, q_path, committed, results, result,
                   answer, escaped>>

\* ---------------------------------------------- human_query_endpoint (1)
NoException == [type |-> "none", where |-> "none"]

TranslationFailedPrefix == "Fallo la generacion de la consulta SQL: "
ExecutionFailedPrefix == "Fallo la consulta a la base de datos: "
SummarizationFailed == "Fallo la generacion de la respuesta"
UnknownError == "Error desconocido"

\* what evaluating sql_response["sql_query"] raises, if anything
subscript_raises(resp) == IF resp.kind # "dict" THEN "TypeError"
                          ELSE IF ~resp.has_sql THEN "KeyError" ELSE "none"

\* sql_response["sql_query"] is None
sql_query_is_none(resp) == resp.sql.kind = "None"

\* sql_response.get('error', 'Error desconocido')
get_error(resp) == IF resp.has_error THEN resp.error ELSE UnknownError

human_query_endpoint_translated ==
    /\ pc = "ep_check"
    /\ IF subscript_raises(sql_response) # "none"
       THEN /\ escaped' = [type |-> subscript_raises(sql_response),
                           where |-> "human_query_endpoint"]
            /\ pc' = "done"
            /\ UNCHANGED <<answer, sql_query, original_query, trace>>
       ELSE IF sql_query_is_none(sql_response)
       THEN /\ answer' = <<TranslationFailedPrefix, get_error(sql_response)>>
            /\ pc' = "done"
            /\ UNCHANGED <<escaped, sql_query, original_query, trace>>
       ELSE /\ sql_query' = sql_response.sql
            /\ original_query' = IF sql_response.has_orig THEN "original_query" ELSE "human_query"
            /\ trace' = Append(trace, "query")
            /\ pc' = "q_connect"
            /\ UNCHANGED <<escaped, answer>>
    /\ UNCHANGED <<tables, schema_info, database_schema, schema_conn, llm_text,
                   sql_response, query_conn, q_path, committed, results, result>>

\* ----------------------------------------------------------------- query
NoResult == [kind |-> "none", rows |-> <<>>, error |-> ""]

error_record(msg) == [kind |-> "error", rows |-> <<>>, error |-> msg]

\* {"message": "Query executed successfully."}
Acknowledgement == [kind |-> "ack", rows |-> <<>>, error |-> ""]

Select == <<"S", "E", "L", "E", "C", "T">>

\* mutant of is_select: the strip() is missing
is_select_unstripped(s) == startswith(upper(s), Select)

\* sql_query.strip().upper().startswith("SELECT")
is_select(s) == startswith(upper(strip(s)), Select)

query_connect ==
    /\ pc = "q_connect"
    /\ \/ /\ query_conn' = "open"
          /\ pc' = "q_execute"
          /\ UNCHANGED result
       \/ /\ result' = error_record(ConnectError)
          /\ pc' = "ep_result"
          /\ UNCHANGED query_conn
    /\ UNCHANGED <<tables, schema_info, database_schema, schema_conn, llm_text,
                   sql_response, sql_query, original_query, q_path, committed, results,
                   answer, escaped, trace>>

query_execute ==
    /\ pc = "q_execute"
    /\ \/ /\ pc' = "q_route"
          /\ UNCHANGED result
       \/ /\ result' = error_record(ExecuteError)
          /\ pc' = "ep_result"
    /\ UNCHANGED <<tables, schema_info, database_schema, schema_conn, llm_text,
                   sql_response, sql_query, original_query, query_conn, q_path,
                   committed, results, answer, escaped, trace>>

query_route ==
    /\ pc = "q_route"
    /\ IF sql_query.kind # "str"
       THEN \* .strip() on a value that is no str: AttributeError, caught at line 98
            /\ result' = error_record("AttributeError")
            /\ pc' = "ep_result"
            /\ UNCHANGED q_path
       ELSE /\ q_path' = IF is_select(sql_query.s) THEN "read" ELSE "write"
            /\ pc' = IF is_select(sql_query.s) THEN "q_fetch" ELSE "q_commit"
            /\ UNCHANGED result
    /\ UNCHANGED <<tables, schema_info, database_schema, schema_conn, llm_text,
                   sql_response, sql_query, original_query, query_conn, committed,
                   results, answer, escaped, trace>>

query_fetch ==
    /\ pc = "q_fetch"
    /\ \/ \E rows \in SeqsUpTo(RowKinds, MaxRows) :
            /\ results' = [kind |-> "rows", rows |-> rows, error |-> ""]
            /\ pc' = "q_close"
            /\ UNCHANGED result
       \/ /\ result' = error_record(FetchError)
          /\ pc' = "ep_result"
          /\ UNCHANGED results
    /\ UNCHANGED <<tables, schema_info, database_schema, schema_conn, llm_text,
                   sql_response, sql_query, original_query, query_conn, q_path,
                   committed, answer, escaped, trace>>

\* mutant of query_commit: the acknowledgement is built but conn.commit() is not called
query_commit_missing ==
    /\ pc = "q_commit"
    /\ \/ /\ results' = [kind |-> "ack", rows |-> <<>>, error |-> ""]
          /\ pc' = "q_close"
          /\ UNCHANGED result
       \/ /\ result' = error_record(CommitError)
          /\ pc' = "ep_result"
          /\ UNCHANGED results
    /\ UNCHANGED <<tables, schema_info, database_schema, schema_conn, llm_text,
                   sql_response, sql_query, original_query, query_conn, q_path,
                   committed, answer, escaped, trace>>

query_commit ==
    /\ pc = "q_commit"
    /\ \/ /\ committed' = TRUE
          /\ results' = Acknowledgement
          /\ pc' = "q_close"
          /\ UNCHANGED result
       \/ /\ result' = error_record(CommitError)
          /\ pc' = "ep_result"
          /\ UNCHANGED <<committed, results>>
    /\ UNCHANGED <<tables, schema_info, database_schema, schema_conn, llm_text,
                   sql_response, sql_query, original_query, query_conn, q_path,
                   answer, escaped, trace>>

query_close ==
    /\ pc = "q_close"
    /\ \/ /\ query_conn' = "closed"
          /\ result' = results
       \/ /\ result' = error_record(CloseError)
          /\ UNCHANGED query_conn
    /\ results' = NoResult
    /\ pc' = "ep_result"
    /\ UNCHANGED <<tables, schema_info, database_schema, schema_conn, llm_text,
                   sql_response, sql_query, original_query, q_path, committed,
                   answer, escaped, trace>>

\* ---------------------------------------------- human_query_endpoint (2)
\* mutant of result_has_error: the test is made on the row list instead of the dict
result_has_error_on_rows(r) == r.kind = "rows" /\ "error" \in Range(r.rows)

\* isinstance(result, dict) and "error" in result
result_has_error(r) == r.kind = "error"

human_query_endpoint_executed ==
    /\ pc = "ep_result"
    /\ IF result_has_error(result)
       THEN /\ answer' = <<ExecutionFailedPrefix, result.error>>
            /\ pc' = "done"
       ELSE /\ pc' = "ba_prompt"
            /\ UNCHANGED answer
    /\ UNCHANGED <<tables, schema_info, database_schema, schema_conn, llm_text,
                   sql_response, sql_query, original_query, query_conn, q_path,
                   committed, results, result, escaped, trace>>

\* ---------------------------------------------------------- build_answer
QueryErrorPrefix == "Lo siento, hubo un error al consultar la base de datos: "
ApologyPrefix == "Lo siento, no pude generar una respuesta. Error: "

\* response.text of the summarising call; <<>> is the empty string
AnswerTexts == { <<>>, <<"Hay 42 clientes.">> }

\* json.dumps raises TypeError on a value that is no JSON type
dumps_raises(r) == r.kind = "rows" /\ \E i \in 1..Len(r.rows) : r.rows[i] = "datetime"

build_answer_prompt ==
    /\ pc = "ba_prompt"
    /\ IF result_has_error(result)
       THEN /\ answer' = <<QueryErrorPrefix, result.error>>
            /\ pc' = "ep_answer"
            /\ UNCHANGED escaped
       ELSE IF dumps_raises(result)
       THEN /\ escaped' = [type |-> "TypeError", where |-> "build_answer"]
            /\ pc' = "done"
            /\ UNCHANGED answer
       ELSE /\ pc' = "ba_llm"
            /\ UNCHANGED <<answer, escaped>>
    /\ UNCHANGED <<tables, schema_info, database_schema, schema_conn, llm_text,
                   sql_response, sql_query, original_query, query_conn, q_path,
                   committed, results, result, trace>>

build_answer_llm ==
    /\ pc = "ba_llm"
    /\ trace' = Append(trace, "summarize_llm")
    /\ \/ answer' = <<ApologyPrefix, LlmError>>
       \/ \E text \in AnswerTexts : answer' = text
    /\ pc' = "ep_answer"
    /\ UNCHANGED <<tables, schema_info, database_schema, schema_conn, llm_text,
                   sql_response, sql_query, original_query, query_conn, q_path,
                   committed, results, result, escaped>>

\* ---------------------------------------------- human_query_endpoint (3)
human_query_endpoint_respond ==
    /\ pc = "ep_answer"
    /\ answer' = IF answer = <<>> THEN <<SummarizationFailed>> ELSE answer
    /\ pc' = "done"
    /\ UNCHANGED <<tables, schema_info, database_schema, schema_conn, llm_text,
                   sql_response, sql_query, original_query, query_conn, q_path,
                   committed, results, result, escaped, trace>>

\* ------------------------------------------------------------ the request
human_query_endpoint_start ==
    /\ pc = "start"
    /\ trace' = Append(trace, "get_schema")
    /\ pc' = "gs_connect"
    /\ UNCHANGED <<tables, schema_info, database_schema, schema_conn, llm_text,
                   sql_response, sql_query, original_query, query_conn, q_path,
                   committed, results, result, answer, escaped>>

Init ==
    /\ pc = "start"
    /\ tables = <<>>
    /\ schema_info = <<>>
    /\ database_schema = NoSchema
    /\ schema_conn = "none"
    /\ llm_text = <<>>
    /\ sql_response = NoResponse
    /\ sql_query = NoneValue
    /\ original_query = "human_query"
    /\ query_conn = "none"
    /\ q_path = "none"
    /\ committed = FALSE
    /\ results = NoResult
    /\ result = NoResult
    /\ answer = <<>>
    /\ escaped = NoException
    /\ trace = <<>>

Next ==
    \/ human_query_endpoint_start
    \/ get_schema_connect
    \/ get_schema_show_tables
    \/ get_schema_describe
    \/ get_schema_close
    \/ human_query_to_sql_check
    \/ human_query_to_sql_llm
    \/ human_query_endpoint_translated
    \/ query_connect
    \/ query_execute
    \/ query_route
    \/ query_fetch
    \/ query_commit
    \/ query_close
    \/ human_query_endpoint_executed
    \/ build_answer_prompt
    \/ build_answer_llm
    \/ human_query_endpoint_respond

Spec == Init /\ [][Next]_vars

\* ------------------------------------------------------------ properties
Called(stage) == stage \in Range(trace)

Stages == <<"get_schema", "translate_llm", "query", "summarize_llm">>

IsTranslationFailure(a) == Len(a) = 2 /\ a[1] = TranslationFailedPrefix

\* C1: every request ends by returning {"answer": <string>}; no exception
\* leaves human_query_endpoint.
C1_AlwaysAnswers ==
    pc = "done" => (escaped = NoException /\ answer # <<>>)

\* C2: when get_schema returns an error record, the answer contains that
\* error message, no LLM call is ever made and query is never called.
C2_SchemaErrorShortCircuits ==
    database_schema.kind = "dict" =>
        /\ trace = <<"get_schema">>
        /\ query_conn = "none"
        /\ pc \in {"hq_check", "ep_check", "done"}
        /\ pc = "done" =>
            /\ escaped = NoException
            /\ \E i \in 1..Len(answer) : answer[i] = database_schema.error

C2_Witness ==
    /\ pc = "done"
    /\ database_schema.kind = "dict"
    /\ database_schema.error = DescribeError
    /\ answer = <<TranslationFailedPrefix, DescribeError>>

\* C3: once get_schema or query has returned, the connection it opened is
\* closed, on the success path and on every error path.
C3_ConnectionsClosedOnReturn ==
    /\ database_schema.kind # "none" => schema_conn # "open"
    /\ result.kind # "none" => query_conn # "open"

\* C4: build_answer never lets an exception reach its caller.
C4_BuildAnswerNeverRaises ==
    escaped.where # "build_answer"

\* C5: when the translation call fails or its reply, fences stripped, is not
\* JSON, the endpoint answers with the translation-failure message and query
\* is never called.
C5_UnparseableTranslationFails ==
    (Called("translate_llm") /\ ~json_valid(strip_fences(llm_text))) =>
        /\ ~Called("query")
        /\ query_conn = "none"
        /\ pc \in {"ep_check", "done"}
        /\ pc = "done" =>
            /\ escaped = NoException
            /\ IsTranslationFailure(answer)
            /\ answer[2] \in {LlmError, JsonError}

C5_Witness ==
    /\ pc = "done"
    /\ llm_text = <<" ", FenceJson, "obj_sql">>
    /\ answer = <<TranslationFailedPrefix, JsonError>>

\* C6: whenever the translator's result has no sql_query (key missing or
\* value null), the endpoint returns the translation-failure message and
\* neither query nor the summarizer is called.
C6_AbsentSqlQueryEndsTranslationFailed ==
    (pc = "done" /\ sql_response.kind = "dict"
        /\ (~sql_response.has_sql \/ sql_response.sql.kind = "None")) =>
        /\ escaped = NoException
        /\ IsTranslationFailure(answer)
        /\ ~Called("query")
        /\ ~Called("summarize_llm")

\* C7: the stages run in the order translate, execute, summarize, each at
\* most once; query runs only on a sql_query the translator returned, the
\* summarizing call only on a result that is no error, and an error result
\* is answered with the execution-failure message without summarizing.
C7_StagesInOrder ==
    /\ Len(trace) <= Len(Stages)
    /\ trace = SubSeq(Stages, 1, Len(trace))
    /\ Called("query") =>
        /\ sql_response.kind = "dict"
        /\ sql_response.has_sql
        /\ sql_response.sql.kind # "None"
        /\ sql_query = sql_response.sql
    /\ (Called("summarize_llm") \/ pc \in {"ba_prompt", "ba_llm", "ep_answer"}) =>
        result.kind \in {"rows", "ack"}
    /\ (pc = "done" /\ result.kind = "error") =>
        /\ answer = <<ExecutionFailedPrefix, result.error>>
        /\ ~Called("summarize_llm")

C7_Witness ==
    /\ pc = "done"
    /\ result.kind = "error"
    /\ result.error = ExecuteError
    /\ trace = <<"get_schema", "translate_llm", "query">>

\* C8: query returns the acknowledgement only after conn.commit() completed
\* in that call, the acknowledgement holds no rows, and a statement on the
\* write path that did not end in the acknowledgement ended in an error.
C8_CommitBeforeAcknowledgement ==
    /\ (results.kind = "ack" \/ result.kind = "ack") => (committed /\ q_path = "write")
    /\ result.kind = "ack" => result.rows = <<>>
    /\ committed => q_path = "write"
    /\ (result.kind # "none" /\ q_path = "write") =>
        \/ result.kind = "ack" /\ committed
        \/ result.kind = "error"

C8_Witness ==
    /\ result.kind = "ack"
    /\ committed
    /\ query_conn = "closed"

\* number of whitespace characters a string starts with
LeadingWhitespace(s) ==
    CHOOSE n \in 0..Len(s) :
        /\ \A i \in 1..n : s[i] \in {" ", "\n"}
        /\ n = Len(s) \/ s[n + 1] \notin {" ", "\n"}

BeginsWithSelect(s) ==
    LET n == LeadingWhitespace(s)
        word == <<{"S", "s"}, {"E", "e"}, {"L", "l"}, {"E", "e"}, {"C", "c"}, {"T", "t"}>>
    IN  /\ Len(s) >= n + 6
        /\ \A i \in 1..6 : s[n + i] \in word[i]

\* C9: a SQL string goes to the read path (fetch, no commit) exactly when,
\* leading whitespace removed and case ignored, it begins with SELECT, and
\* to the write path (commit, acknowledgement) otherwise.
C9_Routing ==
    q_path # "none" =>
        /\ sql_query.kind = "str"
        /\ q_path = "read" <=> BeginsWithSelect(sql_query.s)
        /\ q_path = "read" => (~committed /\ results.kind # "ack" /\ result.kind # "ack")
        /\ q_path = "write" => (results.kind # "rows" /\ result.kind # "rows")
        /\ pc = "q_fetch" => q_path = "read"
        /\ pc = "q_commit" => q_path = "write"

C9_Witness ==
    /\ q_path = "read"
    /\ sql_query.s = <<"\n", "s", "e", "l", "e", "c", "t", " ", "x">>
    /\ result.kind = "rows"

\* C10: whenever get_schema returned the schema text, whatever the names in
\* it, the translator does not take the schema-error branch and calls the
\* LLM once.
C10_SchemaSuccessReachesLlm ==
    (database_schema.kind = "str" /\ pc # "hq_check") =>
        /\ escaped.where # "human_query_to_sql"
        /\ pc = "hq_llm" \/ Called("translate_llm")

====
